---- MODULE Spec2Model ----
(***************************************************************************)
(* Model of goit-pycore-hw-07.py: a command-line contact directory.        *)
(*                                                                         *)
(* Strings are sequences of one-character strings, so that validation,     *)
(* formatting and parsing are computed character by character.  A Python   *)
(* value that may be None is a sequence of length 0 (None) or 1 (a value). *)
(***************************************************************************)
EXTENDS Integers, Sequences, FiniteSets, TLC

VARIABLES pc, book, file, rec, last

vars == <<pc, book, file, rec, last>>

----------------------------------------------------------------------------
(* Bounds of the model *)

MaxRecords == 2
MaxPhones == 2

----------------------------------------------------------------------------
(* Python values *)

NoneV == <<>>
Some(x) == <<x>>
IsNone(o) == Len(o) = 0
Val(o) == o[1]

SetMin(S) == CHOOSE x \in S : \A y \in S : x <= y
SetMax(S) == CHOOSE x \in S : \A y \in S : x >= y

Rep(c, n) == [i \in 1..n |-> c]

----------------------------------------------------------------------------
(* Characters and the str methods the program uses *)

AsciiDigits == {"0", "1", "2", "3", "4", "5", "6", "7", "8", "9"}

\* U+0663 ARABIC-INDIC DIGIT THREE: a decimal digit for re's \d and for int()
UnicodeDigits == {"u0663"}

\* the class \d of a str pattern
IsDigit(c) == c \in AsciiDigits \cup UnicodeDigits

DigitVal(c) ==
    CASE c = "0" -> 0 [] c = "1" -> 1 [] c = "2" -> 2 [] c = "3" -> 3
      [] c = "4" -> 4 [] c = "5" -> 5 [] c = "6" -> 6 [] c = "7" -> 7
      [] c = "8" -> 8 [] c = "9" -> 9 [] c = "u0663" -> 3

DigitChar(n) ==
    CASE n = 0 -> "0" [] n = 1 -> "1" [] n = 2 -> "2" [] n = 3 -> "3"
      [] n = 4 -> "4" [] n = 5 -> "5" [] n = 6 -> "6" [] n = 7 -> "7"
      [] n = 8 -> "8" [] n = 9 -> "9"

Whitespace == {" ", "\n", "\t"}

\* str.strip()
strip(s) ==
    LET keep == {i \in 1..Len(s) : s[i] \notin Whitespace}
    IN  IF keep = {} THEN <<>> ELSE SubSeq(s, SetMin(keep), SetMax(keep))

RECURSIVE split(_, _)
\* str.split(sep) with a one-character separator
split(s, sep) ==
    LET at == {i \in 1..Len(s) : s[i] = sep}
    IN  IF at = {} THEN <<s>>
        ELSE <<SubSeq(s, 1, SetMin(at) - 1)>>
             \o split(SubSeq(s, SetMin(at) + 1, Len(s)), sep)

RECURSIVE join(_, _)
\* sep.join(parts)
join(sep, parts) ==
    IF Len(parts) = 0 THEN <<>>
    ELSE IF Len(parts) = 1 THEN parts[1]
    ELSE parts[1] \o sep \o join(sep, Tail(parts))

RECURSIVE ToInt(_)
\* int() of a string of decimal digits
ToInt(s) ==
    IF Len(s) = 0 THEN 0
    ELSE 10 * ToInt(SubSeq(s, 1, Len(s) - 1)) + DigitVal(s[Len(s)])

\* re's $ also matches just before a newline that ends the string
BeforeDollar(s) ==
    IF Len(s) > 0 /\ s[Len(s)] = "\n" THEN SubSeq(s, 1, Len(s) - 1) ELSE s

----------------------------------------------------------------------------
(* Validated fields *)

PhoneLen == 10

\* Name.__init__ that also rejects a name of whitespace only
NameOk_not_blank(value) == Len(strip(value)) > 0

\* Name.__init__ succeeds: `not value` is false for a str that is not empty
NameOk(value) == Len(value) > 0

\* Phone.validate_phone: re.match(r"^\d{10}$", value)
validate_phone(value) ==
    LET s == BeforeDollar(value)
    IN  Len(s) = PhoneLen /\ \A i \in 1..Len(s) : IsDigit(s[i])

\* Birthday.validate_birthday:
\* ^(0[1-9]|[12][0-9]|3[01])\.(0[1-9]|1[0-2])\.(19|20)\d{2}$
validate_birthday(value) ==
    LET s == BeforeDollar(value)
    IN  /\ Len(s) = 10
        /\ \/ s[1] = "0" /\ s[2] \in AsciiDigits \ {"0"}
           \/ s[1] \in {"1", "2"} /\ s[2] \in AsciiDigits
           \/ s[1] = "3" /\ s[2] \in {"0", "1"}
        /\ s[3] = "."
        /\ \/ s[4] = "0" /\ s[5] \in AsciiDigits \ {"0"}
           \/ s[4] = "1" /\ s[5] \in {"0", "1", "2"}
        /\ s[6] = "."
        /\ \/ s[7] = "1" /\ s[8] = "9"
           \/ s[7] = "2" /\ s[8] = "0"
        /\ IsDigit(s[9]) /\ IsDigit(s[10])

----------------------------------------------------------------------------
(* datetime: dates are records [y, m, d]; every datetime the program       *)
(* builds is at midnight                                                   *)

MINYEAR == 1
MAXYEAR == 9999

IsLeap(y) == (y % 4 = 0 /\ y % 100 # 0) \/ y % 400 = 0

DaysInMonth(y, m) ==
    IF m = 2 THEN (IF IsLeap(y) THEN 29 ELSE 28)
    ELSE IF m \in {4, 6, 9, 11} THEN 30 ELSE 31

Date(y, m, d) == [y |-> y, m |-> m, d |-> d]

\* the directive %d: 3[0-1]|[1-2]\d|0[1-9]|[1-9]| [1-9]
DayToken(t) ==
    \/ Len(t) = 2 /\ t[1] = "3" /\ t[2] \in {"0", "1"}
    \/ Len(t) = 2 /\ t[1] \in {"1", "2"} /\ IsDigit(t[2])
    \/ Len(t) = 2 /\ t[1] = "0" /\ IsDigit(t[2]) /\ DigitVal(t[2]) # 0
    \/ Len(t) = 1 /\ IsDigit(t[1]) /\ DigitVal(t[1]) # 0
    \/ Len(t) = 2 /\ t[1] = " " /\ IsDigit(t[2]) /\ DigitVal(t[2]) # 0

\* the directive %m: 1[0-2]|0[1-9]|[1-9]
MonthToken(t) ==
    \/ Len(t) = 2 /\ t[1] = "1" /\ t[2] \in {"0", "1", "2"}
    \/ Len(t) = 2 /\ t[1] = "0" /\ IsDigit(t[2]) /\ DigitVal(t[2]) # 0
    \/ Len(t) = 1 /\ IsDigit(t[1]) /\ DigitVal(t[1]) # 0

\* the directive %Y: \d\d\d\d
YearToken(t) == Len(t) = 4 /\ \A i \in 1..4 : IsDigit(t[i])

\* datetime.strptime(value, "%d.%m.%Y"): Some(date), or None for ValueError
strptime(value) ==
    LET parts == split(value, ".")
    IN  IF /\ Len(parts) = 3
           /\ DayToken(parts[1]) /\ MonthToken(parts[2]) /\ YearToken(parts[3])
        THEN LET d == ToInt(strip(parts[1]))
                 m == ToInt(parts[2])
                 y == ToInt(parts[3])
             IN  IF y >= MINYEAR /\ d <= DaysInMonth(y, m)
                 THEN Some(Date(y, m, d)) ELSE NoneV
        ELSE NoneV

TwoDigits(n) == <<DigitChar(n \div 10), DigitChar(n % 10)>>

\* strftime("%d.%m.%Y") of a date of the years 1000..9999
strftime(dt) ==
    TwoDigits(dt.d) \o <<".">> \o TwoDigits(dt.m) \o <<".">>
    \o TwoDigits(dt.y \div 100) \o TwoDigits(dt.y % 100)

\* date + timedelta(days=1): None for OverflowError
NextDay(dt) ==
    IF dt.d < DaysInMonth(dt.y, dt.m) THEN Some(Date(dt.y, dt.m, dt.d + 1))
    ELSE IF dt.m < 12 THEN Some(Date(dt.y, dt.m + 1, 1))
    ELSE IF dt.y < MAXYEAR THEN Some(Date(dt.y + 1, 1, 1))
    ELSE NoneV

RECURSIVE AddDays(_, _)
\* date + timedelta(days=n): None for OverflowError
AddDays(dt, n) ==
    IF n = 0 THEN Some(dt)
    ELSE LET nx == NextDay(dt)
         IN  IF IsNone(nx) THEN NoneV ELSE AddDays(Val(nx), n - 1)

\* the order of datetime values
DateLess(a, b) ==
    \/ a.y < b.y
    \/ a.y = b.y /\ a.m < b.m
    \/ a.y = b.y /\ a.m = b.m /\ a.d < b.d

\* Birthday.__init__ that trusts the validator and builds the date from the
\* digits it matched
Birthday_regex_only(value) ==
    IF ~validate_birthday(value) THEN NoneV
    ELSE Some(Date(ToInt(SubSeq(value, 7, 10)), ToInt(SubSeq(value, 4, 5)),
                   ToInt(SubSeq(value, 1, 2))))

\* Birthday.__init__: Some(date), or None when ValueError is raised, by the
\* validator or by strptime
Birthday(value) ==
    IF ~validate_birthday(value) THEN NoneV ELSE strptime(value)

----------------------------------------------------------------------------
(* Record.  A method returns the record it leaves, its return value and    *)
(* the exception that leaves it ("none" when it returns)                   *)

Res(r, ret, exc) == [rec |-> r, ret |-> ret, exc |-> exc]

\* Record.__init__: a failed Name leaves name None
Record(name) ==
    [name |-> IF NameOk(name) THEN Some(name) ELSE NoneV,
     phones |-> <<>>,
     birthday |-> NoneV]

\* Record.add_phone
add_phone(r, phone) ==
    IF validate_phone(phone)
    THEN Res([r EXCEPT !.phones = Append(@, phone)], 1, "none")
    ELSE Res(r, 0, "none")

\* the list without the first entry equal to phone
RemoveFirst(phones, phone) ==
    LET at == {i \in 1..Len(phones) : phones[i] = phone}
    IN  IF at = {} THEN phones
        ELSE SubSeq(phones, 1, SetMin(at) - 1)
             \o SubSeq(phones, SetMin(at) + 1, Len(phones))

\* delete_phone that removes the first match only
delete_phone_first_match(r, phone) ==
    Res([r EXCEPT !.phones = RemoveFirst(@, phone)], 1, "none")

\* Record.delete_phone
delete_phone(r, phone) ==
    Res([r EXCEPT !.phones = SelectSeq(@, LAMBDA p : p # phone)], 1, "none")

\* edit_phone that appends the new phone and forgets to remove the old one
edit_phone_keeps_old(r, old_phone, new_phone) ==
    IF \E i \in 1..Len(r.phones) : r.phones[i] = old_phone
    THEN Res(add_phone(r, new_phone).rec, 1, "none")
    ELSE Res(r, 0, "none")

\* edit_phone that validates the new phone before it touches the list
edit_phone_rolls_back(r, old_phone, new_phone) ==
    IF /\ \E i \in 1..Len(r.phones) : r.phones[i] = old_phone
       /\ validate_phone(new_phone)
    THEN Res(delete_phone(add_phone(r, new_phone).rec, old_phone).rec,
             1, "none")
    ELSE Res(r, 0, "none")

\* edit_phone that appends the new phone also when the old one is not found
edit_phone_adds_anyway(r, old_phone, new_phone) ==
    IF \E i \in 1..Len(r.phones) : r.phones[i] = old_phone
    THEN Res(delete_phone(add_phone(r, new_phone).rec, old_phone).rec,
             1, "none")
    ELSE Res(add_phone(r, new_phone).rec, 0, "none")

\* Record.edit_phone
edit_phone(r, old_phone, new_phone) ==
    IF \E i \in 1..Len(r.phones) : r.phones[i] = old_phone
    THEN Res(delete_phone(add_phone(r, new_phone).rec, old_phone).rec,
             1, "none")
    ELSE Res(r, 0, "none")

\* Record.add_birthday: the message of the first branch reads self.name.value
add_birthday(r, birthday) ==
    IF ~IsNone(r.birthday)
    THEN IF IsNone(r.name) THEN Res(r, 0, "AttributeError")
         ELSE Res(r, 0, "none")
    ELSE LET b == Birthday(birthday)
         IN  IF IsNone(b) THEN Res(r, 0, "none")
             ELSE Res([r EXCEPT !.birthday = b], 1, "none")

\* Record.delete_birthday
delete_birthday(r) == [r EXCEPT !.birthday = NoneV]

\* Record.edit_birthday
edit_birthday(r, new_birthday) ==
    LET b == Birthday(new_birthday)
    IN  IF IsNone(b) THEN Res(r, 0, "none")
        ELSE Res([r EXCEPT !.birthday = b], 1, "none")

----------------------------------------------------------------------------
(* AddressBook: the dict `data` in insertion order, a sequence of entries  *)
(* [key, rec]                                                              *)

Entry(key, r) == [key |-> key, rec |-> r]

Keys(b) == {b[i].key : i \in 1..Len(b)}

IndexOf(b, key) == CHOOSE i \in 1..Len(b) : b[i].key = key

\* data[key] = r: an existing key keeps its place
SetItem(b, key, r) ==
    IF key \in Keys(b) THEN [b EXCEPT ![IndexOf(b, key)] = Entry(key, r)]
    ELSE Append(b, Entry(key, r))

\* AddressBook.add_record
add_record(b, r) ==
    IF IsNone(r.name) THEN b ELSE SetItem(b, Val(r.name), r)

\* AddressBook.find: Some(record) or None
find(b, name) ==
    IF name \in Keys(b) THEN Some(b[IndexOf(b, name)].rec) ELSE NoneV

\* delete that empties the whole dict when the name is a key
delete_clears(b, name) ==
    IF name \in Keys(b)
    THEN [book |-> <<>>, ret |-> 1]
    ELSE [book |-> b, ret |-> 0]

\* AddressBook.delete
delete(b, name) ==
    IF name \in Keys(b)
    THEN [book |-> SelectSeq(b, LAMBDA e : e.key # name), ret |-> 1]
    ELSE [book |-> b, ret |-> 0]

search_period == 7

RECURSIVE ScanWindow(_, _, _)
\* the loop over delta of AddressBook.birthdays for one birthday:
\* "match", "nomatch" or "OverflowError"
ScanWindow(today, birthday_date, delta) ==
    IF delta > search_period THEN "nomatch"
    ELSE LET check_date == AddDays(today, delta)
         IN  IF IsNone(check_date) THEN "OverflowError"
             ELSE IF /\ birthday_date.m = Val(check_date).m
                     /\ birthday_date.d = Val(check_date).d
                  THEN "match"
                  ELSE ScanWindow(today, birthday_date, delta + 1)

RECURSIVE CollectBirthdays(_, _, _)
\* the loop over self.data.values() of AddressBook.birthdays from entry i:
\* the list upcoming_birthdays, or the exception that ends the loop
CollectBirthdays(b, today, i) ==
    IF i > Len(b) THEN [out |-> <<>>, exc |-> "none"]
    ELSE LET user == b[i].rec
             rest == CollectBirthdays(b, today, i + 1)
         IN  IF IsNone(user.birthday) THEN rest
             ELSE LET scan == ScanWindow(today, Val(user.birthday), 0)
                  IN  IF scan = "OverflowError"
                      THEN [out |-> <<>>, exc |-> "OverflowError"]
                      ELSE IF scan = "nomatch" THEN rest
                      ELSE IF IsNone(user.name)
                      THEN [out |-> <<>>, exc |-> "AttributeError"]
                      ELSE IF rest.exc # "none" THEN rest
                      ELSE [out |-> <<[name |-> Val(user.name),
                                       congratulation_date |->
                                           strftime(Val(user.birthday))]>>
                                    \o rest.out,
                            exc |-> "none"]

\* the sort key of AddressBook.birthdays
SortKey(x) == Val(strptime(x.congratulation_date))

RECURSIVE InsertSorted(_, _)
\* x goes after every entry whose key is not greater (sorted() is stable)
InsertSorted(sorted, x) ==
    IF Len(sorted) = 0 THEN <<x>>
    ELSE IF DateLess(SortKey(x), SortKey(sorted[1]))
    THEN <<x>> \o sorted
    ELSE <<sorted[1]>> \o InsertSorted(Tail(sorted), x)

\* birthdays that returns the list in the order of the dict
SortedByDate_unsorted(l) == l

RECURSIVE SortedByDate(_)
\* sorted(upcoming_birthdays, key=...)
SortedByDate(l) ==
    IF Len(l) = 0 THEN <<>>
    ELSE InsertSorted(SortedByDate(SubSeq(l, 1, Len(l) - 1)), l[Len(l)])

\* AddressBook.birthdays: check_day is None when the argument is left out,
\* now is the date datetime.today() returns
birthdays(b, check_day, now) ==
    IF IsNone(check_day) THEN [out |-> <<>>, exc |-> "TypeError"]
    ELSE LET check_date == strptime(Val(check_day))
             today == IF IsNone(check_date) THEN now ELSE Val(check_date)
             found == CollectBirthdays(b, today, 1)
         IN  IF found.exc # "none" THEN found
             ELSE [out |-> SortedByDate(found.out), exc |-> "none"]

----------------------------------------------------------------------------
(* The persisted file: whether it exists, and its lines without their      *)
(* line ends                                                               *)

NoFile == [exists |-> FALSE, lines |-> <<>>]
File(lines) == [exists |-> TRUE, lines |-> lines]

\* the line file_write writes for one record
RecordLine(r) ==
    LET phones_str == join(<<"-">>, r.phones)
        birthday_str == IF IsNone(r.birthday) THEN <<>>
                        ELSE strftime(Val(r.birthday))
    IN  IF Len(birthday_str) > 0
        THEN Val(r.name) \o <<",", " ">> \o phones_str \o <<",", " ">>
             \o birthday_str
        ELSE Val(r.name) \o <<",", " ">> \o phones_str \o <<",">>

RECURSIVE WriteLines(_, _)
\* the loop of file_write from entry i: record.name.value of a record with
\* no name raises AttributeError, which ends the loop
WriteLines(b, i) ==
    IF i > Len(b) THEN <<>>
    ELSE IF IsNone(b[i].rec.name) THEN <<>>
    ELSE <<RecordLine(b[i].rec)>> \o WriteLines(b, i + 1)

\* file_write: open(path, 'w') empties the file, the lines written before
\* an exception stay, and the exception is caught and printed
file_write(b) == File(WriteLines(b, 1))

RECURSIVE AddPhones(_, _)
\* the loop over phones of file_read
AddPhones(r, phones) ==
    IF Len(phones) = 0 THEN r
    ELSE AddPhones(add_phone(r, phones[1]).rec, Tail(phones))

\* the body of the loop of file_read for one line: the dict contacts it
\* leaves and the exception that leaves file_read
ReadLine(contacts, line) ==
    LET parts0 == split(strip(line), ",")
        parts == [i \in 1..Len(parts0) |-> strip(parts0[i])]
        name == parts[1]
        phones_str == IF Len(parts) > 1 THEN parts[2] ELSE <<>>
        birthday == IF Len(parts) > 2 THEN Some(parts[3]) ELSE NoneV
        tokens0 == split(phones_str, "-")
        tokens1 == [i \in 1..Len(tokens0) |-> strip(tokens0[i])]
        phones == SelectSeq(tokens1, LAMBDA t : Len(t) > 0)
        record == IF name \in Keys(contacts)
                  THEN contacts[IndexOf(contacts, name)].rec
                  ELSE Record(name)
        withPhones == AddPhones(record, phones)
        withBirthday == IF ~IsNone(birthday) /\ Len(Val(birthday)) > 0
                        THEN add_birthday(withPhones, Val(birthday))
                        ELSE Res(withPhones, 0, "none")
    IN  [contacts |-> SetItem(contacts, name, withBirthday.rec),
         exc |-> withBirthday.exc]

RECURSIVE ReadLines(_, _, _)
ReadLines(contacts, lines, i) ==
    IF i > Len(lines) THEN [contacts |-> contacts, exc |-> "none"]
    ELSE LET one == ReadLine(contacts, lines[i])
         IN  IF one.exc # "none" THEN one
             ELSE ReadLines(one.contacts, lines, i + 1)

\* file_read
file_read(f) ==
    IF ~f.exists THEN [contacts |-> <<>>, exc |-> "none"]
    ELSE ReadLines(<<>>, f.lines, 1)

----------------------------------------------------------------------------
(* Inputs of the model *)

NameA == <<"A">>
NameAB == <<"A", ",", "B">>

Phone1 == Rep("1", PhoneLen)
Phone2 == Rep("2", PhoneLen)
PhoneAbc == <<"a", "b", "c">>

Day0301 == <<"0", "3", ".", "0", "1", ".", "1", "9", "9", "0">>
Day0901 == <<"0", "9", ".", "0", "1", ".", "1", "9", "8", "5">>
Day3102 == <<"3", "1", ".", "0", "2", ".", "2", "0", "2", "4">>

Ref0101 == <<"0", "1", ".", "0", "1", ".", "2", "0", "2", "4">>
Ref2712 == <<"2", "7", ".", "1", "2", ".", "2", "0", "2", "3">>
Ref9999 == <<"2", "8", ".", "1", "2", ".", "9", "9", "9", "9">>
RefBad == <<"s", "o", "o", "n">>

Names == {NameA, NameAB}
PhoneTokens == {Phone1, Phone2, PhoneAbc}
BirthdayTokens == {Day0301, Day0901, Day3102}
RefTokens == {Ref0101, Ref2712, Ref9999, RefBad}

\* the dates datetime.today() may return
Todays == {Date(2025, 1, 2), Date(2026, 11, 3)}

Sep == <<",", " ">>

\* the files the program may find when it starts
InitialFiles ==
    { NoFile,
      File(<<>>),
      File(<<NameA \o Sep \o Phone1 \o Sep \o Day0301>>),
      File(<<NameA \o Sep \o Phone1 \o <<"-">> \o PhoneAbc \o Sep \o Day3102,
             NameA \o Sep \o Phone2 \o Sep \o Day0901>>),
      File(<< <<>> >>),
      File(<< <<",", " ", ",", " ">> \o Day0301 >>),
      File(<< <<",", " ", ",", " ">> \o Day0301,
              <<",", " ", ",", " ">> \o Day0901 >>),
      File(<<NameA \o Sep \o Phone1 \o <<",">>, <<>> >>) }

\* args[i] of the command line, None past its end
Arg(args, i) == IF Len(args) >= i THEN Some(args[i]) ELSE NoneV

ArgLists1(S) == {<<>>} \cup {<<x>> : x \in S}
ArgLists2(S, T) == ArgLists1(S) \cup {<<x, y>> : x \in S, y \in T}
ArgLists3(S, T, U) ==
    ArgLists2(S, T) \cup {<<x, y, z>> : x \in S, y \in T, z \in U}

----------------------------------------------------------------------------
(* main: the command loop *)

\* what the last command was, when the model keeps it: its arguments, the
\* list it printed and the exception that left it
Last(op, args, out, exc) == [op |-> op, args |-> args, out |-> out, exc |-> exc]

NoLast == Last("none", <<>>, <<>>, "none")

\* the exception exc of the command op leaves main
Crash(op, args, exc) ==
    /\ pc' = "crashed"
    /\ last' = Last(op, args, <<>>, exc)
    /\ UNCHANGED <<book, file, rec>>

\* the command ends with no change
Skip ==
    /\ last' = NoLast
    /\ UNCHANGED <<pc, book, file, rec>>

\* the command ends after file_write(book.data)
Save(b) ==
    /\ book' = b
    /\ file' = file_write(b)
    /\ last' = NoLast
    /\ UNCHANGED <<pc, rec>>

\* book = AddressBook(); book.data.update(file_read())
Load ==
    /\ pc = "start"
    /\ LET loaded == file_read(file)
       IN  IF loaded.exc # "none" THEN Crash("load", <<>>, loaded.exc)
           ELSE /\ pc' = "loop"
                /\ book' = loaded.contacts
                /\ UNCHANGED <<file, rec, last>>

\* close, exit
CmdClose ==
    /\ pc = "loop"
    /\ pc' = "done"
    /\ file' = file_write(book)
    /\ UNCHANGED <<book, rec, last>>

\* add: Phone(None) and Birthday(None) raise TypeError in re.match, which
\* the handlers of ValueError do not catch
CmdAdd(args) ==
    /\ pc = "loop"
    /\ IF Len(args) < 1 THEN Skip
       ELSE LET name == args[1]
                phone == Arg(args, 2)
                birthday == Arg(args, 3)
                record == Record(name)
            IN  IF ~IsNone(find(book, name)) THEN Skip
                ELSE IF IsNone(phone) THEN Crash("add", args, "TypeError")
                ELSE LET withPhone ==
                             IF validate_phone(Val(phone))
                             THEN add_phone(record, Val(phone)).rec
                             ELSE record
                     IN  IF IsNone(birthday)
                         THEN Crash("add", args, "TypeError")
                         ELSE LET withBirthday ==
                                      IF ~IsNone(Birthday(Val(birthday)))
                                      THEN add_birthday(withPhone,
                                                        Val(birthday)).rec
                                      ELSE withPhone
                              IN  /\ Len(book) < MaxRecords
                                  /\ Save(add_record(book, withBirthday))

\* add-phone
CmdAddPhone(args) ==
    /\ pc = "loop"
    /\ IF Len(args) < 1 THEN Skip
       ELSE LET name == args[1]
                phone == Arg(args, 2)
                record == find(book, name)
            IN  IF IsNone(record) \/ IsNone(phone) THEN Skip
                ELSE /\ Len(Val(record).phones) < MaxPhones
                     /\ LET added == add_phone(Val(record), Val(phone))
                        IN  IF added.ret = 1
                            THEN Save(add_record(book, added.rec))
                            ELSE Skip

\* add-birthday
CmdAddBirthday(args) ==
    /\ pc = "loop"
    /\ IF Len(args) < 1 THEN Skip
       ELSE LET name == args[1]
                birthday == Arg(args, 2)
                record == find(book, name)
            IN  IF IsNone(record) \/ IsNone(birthday) THEN Skip
                ELSE LET added == add_birthday(Val(record), Val(birthday))
                     IN  IF added.exc # "none"
                         THEN Crash("add-birthday", args, added.exc)
                         ELSE IF added.ret = 1
                         THEN Save(add_record(book, added.rec))
                         ELSE Skip

\* delete
CmdDelete(args) ==
    /\ pc = "loop"
    /\ IF Len(args) # 1 THEN Skip
       ELSE LET deleted == delete(book, args[1])
            IN  IF deleted.ret = 1 THEN Save(deleted.book) ELSE Skip

\* delete-phone
CmdDeletePhone(args) ==
    /\ pc = "loop"
    /\ IF Len(args) # 2 THEN Skip
       ELSE LET record == find(book, args[1])
            IN  IF IsNone(record) THEN Skip
                ELSE Save(SetItem(book, args[1],
                                  delete_phone(Val(record), args[2]).rec))

\* delete-birthday
CmdDeleteBirthday(args) ==
    /\ pc = "loop"
    /\ IF Len(args) # 1 THEN Skip
       ELSE LET record == find(book, args[1])
            IN  IF IsNone(record) THEN Skip
                ELSE Save(SetItem(book, args[1],
                                  delete_birthday(Val(record))))

\* edit-phone: the message for an unknown name asks termcolor for the
\* colour 'red)', a KeyError when colours are on and nothing when they are
\* off (colourOn)
CmdEditPhone(args, colourOn) ==
    /\ pc = "loop"
    /\ IF Len(args) < 3 THEN Skip
       ELSE LET record == find(book, args[1])
            IN  IF IsNone(record)
                THEN IF colourOn
                     THEN Crash("edit-phone", args, "KeyError")
                     ELSE Skip
                ELSE Save(SetItem(book, args[1],
                                  edit_phone(Val(record), args[2],
                                             args[3]).rec))

\* edit-birthday
CmdEditBirthday(args) ==
    /\ pc = "loop"
    /\ IF Len(args) # 2 THEN Skip
       ELSE LET record == find(book, args[1])
            IN  IF IsNone(record) THEN Skip
                ELSE Save(SetItem(book, args[1],
                                  edit_birthday(Val(record), args[2]).rec))

\* birthdays: with no argument check_day is None
CmdBirthdays(args, now) ==
    /\ pc = "loop"
    /\ LET upcoming == birthdays(book, Arg(args, 1), now)
       IN  IF upcoming.exc # "none"
           THEN Crash("birthdays", args, upcoming.exc)
           ELSE /\ last' = Last("birthdays", args, upcoming.out, "none")
                /\ UNCHANGED <<pc, book, file, rec>>

\* all, birthdays-all: both read record.name.value of every record
CmdAll ==
    /\ pc = "loop"
    /\ IF \E i \in 1..Len(book) : IsNone(book[i].rec.name)
       THEN Crash("all", <<>>, "AttributeError")
       ELSE /\ last' = Last("all", <<>>, <<>>, "none")
            /\ UNCHANGED <<pc, book, file, rec>>

\* hello, phone, birthday, and any other word: a message only
CmdOther ==
    /\ pc = "loop"
    /\ last' = Last("other", <<>>, <<>>, "none")
    /\ UNCHANGED <<pc, book, file, rec>>

\* an empty line: cmd, *args = [] raises ValueError in parse_input
CmdEmpty ==
    /\ pc = "loop"
    /\ Crash("", <<>>, "ValueError")

Init ==
    /\ pc = "start"
    /\ book = <<>>
    /\ file \in InitialFiles
    /\ rec = NoneV
    /\ last = NoLast

Next ==
    \/ Load
    \/ CmdClose
    \/ \E args \in ArgLists3(Names, PhoneTokens, BirthdayTokens) : CmdAdd(args)
    \/ \E args \in ArgLists2(Names, PhoneTokens) : CmdAddPhone(args)
    \/ \E args \in ArgLists2(Names, BirthdayTokens) : CmdAddBirthday(args)
    \/ \E args \in ArgLists1(Names) : CmdDelete(args)
    \/ \E args \in ArgLists2(Names, PhoneTokens) : CmdDeletePhone(args)
    \/ \E args \in ArgLists1(Names) : CmdDeleteBirthday(args)
    \/ \E args \in ArgLists3(Names, PhoneTokens, PhoneTokens),
          colourOn \in BOOLEAN : CmdEditPhone(args, colourOn)
    \/ \E args \in ArgLists2(Names, BirthdayTokens) : CmdEditBirthday(args)
    \/ \E args \in ArgLists1(RefTokens), now \in Todays :
          CmdBirthdays(args, now)
    \/ CmdAll
    \/ CmdOther
    \/ CmdEmpty

Spec == Init /\ [][Next]_vars

----------------------------------------------------------------------------
(* The fields and one Record on their own: the constructors and the        *)
(* methods of Record applied to inputs of a bounded set.  last keeps the   *)
(* call: its arguments, the record before it and its outcome               *)

Call(op, args, pre, ret, out, exc) ==
    [op |-> op, args |-> args, pre |-> pre, ret |-> ret, out |-> out,
     exc |-> exc]

PhoneShort == Rep("1", PhoneLen - 1)
PhoneLong == Rep("1", PhoneLen + 1)
PhonePlus == <<"+">> \o Rep("1", PhoneLen - 1)
PhoneDash == Rep("1", 3) \o <<"-">> \o Rep("1", 6)
PhoneNewline == Phone1 \o <<"\n">>
PhoneArabic == Rep("u0663", PhoneLen)

RecordNames == {NameA, <<>>, <<" ">>}
RecordPhones == {Phone1, Phone2, PhoneAbc, PhoneShort, PhoneNewline}
RecordBirthdays == {Day0301, Day0901, Day3102, RefBad}

\* Record(name)
NewRecord(name) ==
    /\ rec' = Record(name)
    /\ last' = Call("Record", <<name>>, rec, 1, <<>>, "none")
    /\ UNCHANGED <<pc, book, file>>

\* a method of rec was called and left res
Called(op, args, res) ==
    /\ rec' = res.rec
    /\ last' = Call(op, args, rec, res.ret, <<>>, res.exc)
    /\ UNCHANGED <<pc, book, file>>

RecAddPhone(phone) ==
    /\ Len(rec.phones) < MaxPhones
    /\ Called("add_phone", <<phone>>, add_phone(rec, phone))

RecDeletePhone(phone) ==
    Called("delete_phone", <<phone>>, delete_phone(rec, phone))

RecEditPhone(old_phone, new_phone) ==
    Called("edit_phone", <<old_phone, new_phone>>,
           edit_phone(rec, old_phone, new_phone))

RecAddBirthday(birthday) ==
    Called("add_birthday", <<birthday>>, add_birthday(rec, birthday))

RecEditBirthday(birthday) ==
    Called("edit_birthday", <<birthday>>, edit_birthday(rec, birthday))

RecDeleteBirthday ==
    Called("delete_birthday", <<>>, Res(delete_birthday(rec), 1, "none"))

InitRecord ==
    /\ pc = "record"
    /\ book = <<>>
    /\ file = NoFile
    /\ rec \in {Record(name) : name \in RecordNames}
    /\ last = Call("Record", <<>>, rec, 1, <<>>, "none")

NextRecord ==
    \/ \E name \in RecordNames : NewRecord(name)
    \/ \E phone \in RecordPhones : RecAddPhone(phone)
    \/ \E phone \in RecordPhones : RecDeletePhone(phone)
    \/ \E old \in RecordPhones, new \in RecordPhones : RecEditPhone(old, new)
    \/ \E birthday \in RecordBirthdays : RecAddBirthday(birthday)
    \/ \E birthday \in RecordBirthdays : RecEditBirthday(birthday)
    \/ RecDeleteBirthday

SpecRecord == InitRecord /\ [][NextRecord]_vars

----------------------------------------------------------------------------
(* The fields on their own: one call of a constructor, or of add_birthday  *)
(* or edit_birthday of a new Record, with an input of a bounded set        *)

PhoneInputs ==
    {Phone1, Phone2, PhoneAbc, PhoneShort, PhoneLong, PhonePlus, PhoneDash,
     PhoneNewline, PhoneArabic, <<>>}

DayInputs == {<<"0", "0">>, <<"0", "1">>, <<"2", "8">>, <<"2", "9">>,
              <<"3", "0">>, <<"3", "1">>, <<"3", "2">>}
MonthInputs == {<<"0", "0">>, <<"0", "1">>, <<"0", "2">>, <<"0", "4">>,
                <<"1", "2">>, <<"1", "3">>}
YearInputs == {<<"1", "8", "9", "9">>, <<"1", "9", "0", "0">>,
               <<"2", "0", "0", "0">>, <<"2", "0", "2", "3">>,
               <<"2", "0", "2", "4">>, <<"2", "1", "0", "0">>}

BirthdayInputs ==
    {d \o <<".">> \o m \o <<".">> \o y :
        d \in DayInputs, m \in MonthInputs, y \in YearInputs}
    \cup {RefBad, <<>>, Day0301 \o <<"\n">>,
          <<"3", ".", "1", ".", "1", "9", "9", "0">>,
          <<"0", "3", "-", "0", "1", "-", "1", "9", "9", "0">>}

\* Name(value)
NewName(value) ==
    /\ pc = "field"
    /\ last' = Call("Name", <<value>>, rec, IF NameOk(value) THEN 1 ELSE 0,
                    <<>>, IF NameOk(value) THEN "none" ELSE "ValueError")
    /\ pc' = "called"
    /\ UNCHANGED <<book, file, rec>>

\* Phone(value)
NewPhone(value) ==
    /\ pc = "field"
    /\ last' = Call("Phone", <<value>>, rec,
                    IF validate_phone(value) THEN 1 ELSE 0, <<>>,
                    IF validate_phone(value) THEN "none" ELSE "ValueError")
    /\ pc' = "called"
    /\ UNCHANGED <<book, file, rec>>

\* Birthday(value): out is the value the field holds
NewBirthday(value) ==
    /\ pc = "field"
    /\ last' = Call("Birthday", <<value>>, rec,
                    IF IsNone(Birthday(value)) THEN 0 ELSE 1, Birthday(value),
                    IF IsNone(Birthday(value)) THEN "ValueError" ELSE "none")
    /\ pc' = "called"
    /\ UNCHANGED <<book, file, rec>>

\* Record("A").add_birthday(value)
FieldAddBirthday(value) ==
    /\ pc = "field"
    /\ rec' = add_birthday(Record(NameA), value).rec
    /\ last' = Call("add_birthday", <<value>>, Record(NameA),
                    add_birthday(Record(NameA), value).ret, <<>>,
                    add_birthday(Record(NameA), value).exc)
    /\ pc' = "called"
    /\ UNCHANGED <<book, file>>

\* Record("A").edit_birthday(value)
FieldEditBirthday(value) ==
    /\ pc = "field"
    /\ rec' = edit_birthday(Record(NameA), value).rec
    /\ last' = Call("edit_birthday", <<value>>, Record(NameA),
                    edit_birthday(Record(NameA), value).ret, <<>>,
                    edit_birthday(Record(NameA), value).exc)
    /\ pc' = "called"
    /\ UNCHANGED <<book, file>>

InitField ==
    /\ pc = "field"
    /\ book = <<>>
    /\ file = NoFile
    /\ rec = Record(NameA)
    /\ last = Call("Record", <<NameA>>, rec, 1, <<>>, "none")

NextField ==
    \/ \E value \in RecordNames : NewName(value)
    \/ \E value \in PhoneInputs : NewPhone(value)
    \/ \E value \in BirthdayInputs : NewBirthday(value)
    \/ \E value \in BirthdayInputs : FieldAddBirthday(value)
    \/ \E value \in BirthdayInputs : FieldEditBirthday(value)

SpecField == InitField /\ [][NextField]_vars

----------------------------------------------------------------------------
(* An AddressBook on its own: its methods applied to records built with    *)
(* the methods of Record                                                   *)

NameB == <<"B">>
NameC == <<"C">>

BookNames == {NameA, NameB, NameC}

\* the name, the phone and the birthday may each be a rejected one
BookRecords ==
    {add_birthday(add_phone(Record(name), phone).rec, birthday).rec :
        name \in BookNames \cup {<<>>},
        phone \in {Phone1, PhoneAbc},
        birthday \in {Day0301, Day0901, Day3102}}

BookAddRecord(record) ==
    /\ Len(book) < MaxRecords
    /\ book' = add_record(book, record)
    /\ last' = Call("add_record", <<record>>, book, 1, <<>>, "none")
    /\ UNCHANGED <<pc, file, rec>>

BookFind(name) ==
    /\ last' = Call("find", <<name>>, book, 1, find(book, name), "none")
    /\ UNCHANGED <<pc, book, file, rec>>

BookDelete(name) ==
    /\ book' = delete(book, name).book
    /\ last' = Call("delete", <<name>>, book, delete(book, name).ret, <<>>,
                    "none")
    /\ UNCHANGED <<pc, file, rec>>

BookBirthdays(check_day, now) ==
    /\ last' = Call("birthdays", <<check_day>>, book, 1,
                    birthdays(book, check_day, now).out,
                    birthdays(book, check_day, now).exc)
    /\ UNCHANGED <<pc, book, file, rec>>

InitBook ==
    /\ pc = "book"
    /\ book = <<>>
    /\ file = NoFile
    /\ rec = NoneV
    /\ last = Call("AddressBook", <<>>, <<>>, 1, <<>>, "none")

NextBook ==
    \/ \E record \in BookRecords : BookAddRecord(record)
    \/ \E name \in BookNames : BookFind(name)
    \/ \E name \in BookNames : BookDelete(name)
    \/ \E check_day \in {NoneV} \cup {Some(t) : t \in RefTokens},
          now \in Todays : BookBirthdays(check_day, now)

SpecBook == InitBook /\ [][NextBook]_vars

----------------------------------------------------------------------------
(* The load on its own: file_read of a file of a bounded set of lines      *)

MaxLines == 2

LoadLines ==
    { NameA \o Sep \o Phone1 \o <<"-">> \o PhoneAbc \o Sep \o Day0301,
      NameA \o Sep \o Phone2 \o Sep \o Day3102,
      NameB \o Sep \o Phone2 \o Sep \o Day0901,
      NameB \o Sep \o PhoneAbc \o <<"-">> \o Phone1 \o Sep \o RefBad,
      NameA \o Sep \o Phone1 \o <<",">>,
      <<",", " ">> \o PhoneAbc \o Sep \o Day0301,
      <<",", " ", ",", " ">> \o Day0901,
      <<>> }

LoadFiles ==
    {NoFile} \cup
    UNION {{File(lines) : lines \in [1..n -> LoadLines]} : n \in 0..MaxLines}

InitLoad ==
    /\ pc = "start"
    /\ book = <<>>
    /\ file \in LoadFiles
    /\ rec = NoneV
    /\ last = NoLast

NextLoad == Load

SpecLoad == InitLoad /\ [][NextLoad]_vars

----------------------------------------------------------------------------
(* Properties *)

\* a string of exactly 10 characters 0..9
IsTenDigits(s) == Len(s) = 10 /\ \A i \in 1..Len(s) : s[i] \in AsciiDigits

\* the file holds one line per record of b, in the order of b
Persisted(f, b) ==
    /\ f.exists
    /\ Len(f.lines) = Len(b)
    /\ \A i \in 1..Len(b) :
          /\ ~IsNone(b[i].rec.name)
          /\ f.lines[i] = RecordLine(b[i].rec)

\* C1: writing the Directory with file_write and reading it back with
\* file_read gives the same names and, for each name, the same phone list
\* in the same order and the same birthday.
C1_RoundTrip ==
    pc = "loop" =>
        LET back == file_read(file_write(book))
        IN  /\ back.exc = "none"
            /\ Keys(back.contacts) = Keys(book)
            /\ \A i \in 1..Len(book) :
                  LET found == find(back.contacts, book[i].key)
                  IN  /\ ~IsNone(found)
                      /\ Val(found).name = book[i].rec.name
                      /\ Val(found).phones = book[i].rec.phones
                      /\ Val(found).birthday = book[i].rec.birthday

\* C2: a command that changes the Directory, and close/exit, leaves the
\* file holding exactly the encoding of the Directory it leaves.
C2_FileFollowsBook ==
    [][((pc = "loop" /\ book' # book) \/ (pc = "loop" /\ pc' = "done"))
          => Persisted(file', book')]_vars

\* C3: every Record of the Directory has a non-empty name and is stored
\* under the key equal to that name.
C3_NamedRecords ==
    \A i \in 1..Len(book) :
        /\ ~IsNone(book[i].rec.name)
        /\ Len(Val(book[i].rec.name)) > 0
        /\ book[i].key = Val(book[i].rec.name)

\* the call last was edit_phone(old, new), with two strings of 10 digits,
\* of a Record whose phone list was exactly [old]
EditOfSinglePhone ==
    /\ last.op = "edit_phone"
    /\ IsTenDigits(last.args[1]) /\ IsTenDigits(last.args[2])
    /\ last.pre.phones = <<last.args[1]>>

\* C4 as claimed: editPhone(old, new) with two valid phones on a Record
\* whose list is exactly [old] reports success and leaves exactly [new].
C4_EditSinglePhone_Claimed ==
    EditOfSinglePhone =>
        last.ret = 1 /\ last.exc = "none" /\ rec.phones = <<last.args[2]>>

\* C4 as amended: it reports success, and leaves exactly [new] when new
\* differs from old, and an empty list when new equals old.
C4_EditSinglePhone ==
    EditOfSinglePhone =>
        /\ last.ret = 1 /\ last.exc = "none"
        /\ last.args[1] # last.args[2] => rec.phones = <<last.args[2]>>
        /\ last.args[1] = last.args[2] => rec.phones = <<>>

C4_Witness ==
    /\ EditOfSinglePhone
    /\ last.args = <<Phone1, Phone2>>
    /\ rec.phones = <<Phone2>>

\* C5: editPhone(old, new) on a Record that holds old, with new failing
\* the phone validation, removes every entry equal to old, adds none and
\* keeps the other entries in their order.
C5_EditInvalidNew ==
    (/\ last.op = "edit_phone"
     /\ \E i \in 1..Len(last.pre.phones) : last.pre.phones[i] = last.args[1]
     /\ ~validate_phone(last.args[2]))
    => /\ \A i \in 1..Len(rec.phones) : rec.phones[i] # last.args[1]
       /\ rec.phones = SelectSeq(last.pre.phones,
                                 LAMBDA p : p # last.args[1])

C5_Witness ==
    /\ last.op = "edit_phone"
    /\ last.args = <<Phone1, PhoneAbc>>
    /\ last.pre.phones = <<Phone1, Phone2>>
    /\ rec.phones = <<Phone2>>

\* C6: addBirthday on a Record that has a Birthday returns failure and
\* leaves the Birthday as it is, for every input; an existing Birthday is
\* changed by editBirthday and deleteBirthday only.
C6_AddBirthdayTwice ==
    /\ (last.op = "add_birthday" /\ ~IsNone(last.pre.birthday))
        => /\ last.exc = "none"
           /\ last.ret = 0
           /\ rec.birthday = last.pre.birthday
    /\ (/\ last.op \in {"add_phone", "delete_phone", "edit_phone",
                        "add_birthday", "edit_birthday", "delete_birthday"}
        /\ ~IsNone(last.pre.birthday)
        /\ rec.birthday # last.pre.birthday)
        => last.op \in {"edit_birthday", "delete_birthday"}

\* DD.MM.YYYY with DD in 01..31, MM in 01..12 and YYYY of 19xx or 20xx
ClaimedDateFormat(s) ==
    /\ Len(s) = 10
    /\ \A i \in {1, 2, 4, 5, 7, 8, 9, 10} : s[i] \in AsciiDigits
    /\ s[3] = "." /\ s[6] = "."
    /\ ToInt(SubSeq(s, 1, 2)) \in 1..31
    /\ ToInt(SubSeq(s, 4, 5)) \in 1..12
    /\ ToInt(SubSeq(s, 7, 8)) \in {19, 20}

ClaimedDate(s) ==
    Date(ToInt(SubSeq(s, 7, 10)), ToInt(SubSeq(s, 4, 5)),
         ToInt(SubSeq(s, 1, 2)))

\* the call last was Birthday(s), add_birthday(s) or edit_birthday(s) of a
\* new Record, with s of the claimed format
BirthdayOfClaimedFormat ==
    /\ last.op \in {"Birthday", "add_birthday", "edit_birthday"}
    /\ ClaimedDateFormat(last.args[1])

Day2902 == <<"2", "9", ".", "0", "2", ".", "2", "0", "2", "4">>

InWindow(R, bd) ==
    \E delta \in 0..search_period :
        LET c == AddDays(R, delta)
        IN  ~IsNone(c) /\ Val(c).m = bd.m /\ Val(c).d = bd.d

\* out has exactly one entry for each Record of b whose Birthday is in the
\* window of R, with the Birthday as DD.MM.YYYY, and no other entry
UpcomingOf(b, R, out) ==
    LET matching == {i \in 1..Len(b) :
                        /\ ~IsNone(b[i].rec.birthday)
                        /\ InWindow(R, Val(b[i].rec.birthday))}
    IN  /\ Len(out) = Cardinality(matching)
        /\ \A i \in matching :
              /\ ~IsNone(b[i].rec.name)
              /\ \E j \in 1..Len(out) :
                    out[j] = [name |-> Val(b[i].rec.name),
                              congratulation_date |->
                                  strftime(Val(b[i].rec.birthday))]

\* C8: upcomingBirthdays with a valid reference date R returns exactly one
\* entry for each Record whose Birthday has the month and day of R + delta
\* for a delta of 0..7, and no other entry; the date reported is the
\* Birthday with its own year.
C8_UpcomingBirthdays ==
    (/\ last.op = "birthdays"
     /\ Len(last.args) = 1
     /\ ~IsNone(strptime(last.args[1])))
    => /\ last.exc = "none"
       /\ UpcomingOf(book, Val(strptime(last.args[1])), last.out)

\* C9: with the reference date absent or not a date, upcomingBirthdays
\* falls back to today and returns a list; it never fails.
C9_FallbackToToday ==
    (/\ last.op = "birthdays"
     /\ Len(last.args) = 0 \/ IsNone(strptime(last.args[1])))
    => /\ last.exc = "none"
       /\ \E now \in Todays : UpcomingOf(book, now, last.out)

\* C10: delete(name) of a name that is no key returns failure and leaves
\* the Directory as it is; of a key it returns success, removes that entry
\* only, and find(name) then returns nothing.
C10_Delete ==
    last.op = "delete" =>
        LET name == last.args[1]
        IN  IF name \notin Keys(last.pre)
            THEN last.ret = 0 /\ book = last.pre
            ELSE /\ last.ret = 1
                 /\ Keys(book) = Keys(last.pre) \ {name}
                 /\ Len(book) = Len(last.pre) - 1
                 /\ \A k \in Keys(book) : find(book, k) = find(last.pre, k)
                 /\ IsNone(find(book, name))

C10_Witness ==
    /\ last.op = "delete"
    /\ last.ret = 1
    /\ Len(last.pre) = 2
    /\ Len(book) = 1

\* C11: no validation or lookup failure of a recognized command ends the
\* command loop; the process ends on close/exit only.
C11_LoopSurvives ==
    ~(/\ pc = "crashed"
      /\ last.op \in {"add", "add-phone", "add-birthday", "delete",
                      "delete-phone", "delete-birthday", "edit-phone",
                      "edit-birthday", "birthdays", "all"})

\* C12: Phone construction succeeds for every string of exactly 10 digits
\* 0..9 and fails for every other string.
C12_PhoneFormat ==
    last.op = "Phone" =>
        /\ IsTenDigits(last.args[1]) => last.ret = 1 /\ last.exc = "none"
        /\ ~IsTenDigits(last.args[1])
              => last.ret = 0 /\ last.exc = "ValueError"

\* the call last was Record(name)
RecordCreated == last.op = "Record" /\ Len(last.args) = 1

\* C13 as claimed: a Record created from an empty name or from a name of
\* whitespace only has no usable name.
C13_BlankName_Claimed ==
    (RecordCreated /\ Len(strip(last.args[1])) = 0) => IsNone(rec.name)

\* C13 as amended: a Record created from an empty name has no usable name;
\* a name of whitespace only is accepted and is the name of the Record.
C13_BlankName ==
    RecordCreated =>
        /\ Len(last.args[1]) = 0 => IsNone(rec.name)
        /\ Len(last.args[1]) > 0 => rec.name = Some(last.args[1])
        /\ rec.phones = <<>> /\ IsNone(rec.birthday)

C13_Witness ==
    /\ RecordCreated
    /\ last.args = << <<" ">> >>
    /\ rec.name = Some(<<" ">>)

\* the date a reported congratulation date stands for, read as DD.MM.YYYY
ReportedDate(x) == ClaimedDate(x.congratulation_date)

\* C14: the list upcomingBirthdays returns is sorted ascending by the
\* reported date read as a full date, the year of the birthday included.
C14_SortedByDate ==
    (last.op = "birthdays" /\ last.exc = "none") =>
        \A j \in 1..(Len(last.out) - 1) :
            ~DateLess(ReportedDate(last.out[j + 1]), ReportedDate(last.out[j]))

\* two records match, and the one added later is reported first
C14_Witness ==
    /\ last.op = "birthdays" /\ last.exc = "none"
    /\ Len(last.out) = 2 /\ Len(book) = 2
    /\ last.out[1].name = book[2].key
    /\ DateLess(ReportedDate(last.out[1]), ReportedDate(last.out[2]))

\* the call last was edit_phone(old, new) of a Record with no phone equal
\* to old
EditOfMissingPhone ==
    /\ last.op = "edit_phone"
    /\ \A i \in 1..Len(last.pre.phones) : last.pre.phones[i] # last.args[1]

\* C15: editPhone(old, new) on a Record with no phone equal to old returns
\* failure and leaves the phone list as it is, also for a valid new.
C15_EditMissingPhone ==
    EditOfMissingPhone =>
        last.ret = 0 /\ last.exc = "none" /\ rec = last.pre

C15_Witness ==
    /\ EditOfMissingPhone
    /\ last.args = <<Phone2, Phone1>>
    /\ last.pre.phones = <<Phone1>>
    /\ rec.phones = <<Phone1>>

RECURSIVE Without(_, _)
\* the entries of phones that differ from phone, in their order
Without(phones, phone) ==
    IF Len(phones) = 0 THEN <<>>
    ELSE IF phones[1] = phone THEN Without(Tail(phones), phone)
    ELSE <<phones[1]>> \o Without(Tail(phones), phone)

\* C16: deletePhone(raw) removes every entry equal to raw and leaves the
\* other entries in their order; name and birthday are unchanged.
C16_DeletePhone ==
    last.op = "delete_phone" =>
        /\ last.ret = 1 /\ last.exc = "none"
        /\ rec.phones = Without(last.pre.phones, last.args[1])
        /\ rec.name = last.pre.name
        /\ rec.birthday = last.pre.birthday

C16_Witness ==
    /\ last.op = "delete_phone"
    /\ last.args = <<Phone1>>
    /\ last.pre.phones = <<Phone1, Phone1>>
    /\ rec.phones = <<>>

\* the fields of a persisted line: split on commas and trimmed
LineFields(line) ==
    LET parts == split(strip(line), ",")
    IN  [i \in 1..Len(parts) |-> strip(parts[i])]

LineName(line) == LineFields(line)[1]

\* the phone tokens of a persisted line: split on hyphens, empty ones
\* dropped
LinePhoneTokens(line) ==
    IF Len(LineFields(line)) < 2 THEN <<>>
    ELSE LET tokens == split(LineFields(line)[2], "-")
         IN  SelectSeq([i \in 1..Len(tokens) |-> strip(tokens[i])],
                       LAMBDA t : Len(t) > 0)

\* the birthday token of a persisted line, empty when there is none
LineBirthdayToken(line) ==
    IF Len(LineFields(line)) < 3 THEN <<>> ELSE LineFields(line)[3]

ValidBirthdayToken(t) == Len(t) > 0 /\ ~IsNone(Birthday(t))

HasInvalidToken(line) ==
    \/ \E i \in 1..Len(LinePhoneTokens(line)) :
          ~IsTenDigits(LinePhoneTokens(line)[i])
    \/ Len(LineBirthdayToken(line)) > 0
       /\ ~ValidBirthdayToken(LineBirthdayToken(line))

RECURSIVE ExpectedPhones(_, _)
\* the valid phone tokens of the lines of a name, in file order
ExpectedPhones(lines, name) ==
    IF Len(lines) = 0 THEN <<>>
    ELSE (IF LineName(lines[1]) = name
          THEN SelectSeq(LinePhoneTokens(lines[1]), IsTenDigits)
          ELSE <<>>)
         \o ExpectedPhones(Tail(lines), name)

RECURSIVE ExpectedBirthday(_, _)
\* the first valid birthday token of the lines of a name
ExpectedBirthday(lines, name) ==
    IF Len(lines) = 0 THEN NoneV
    ELSE IF /\ LineName(lines[1]) = name
            /\ ValidBirthdayToken(LineBirthdayToken(lines[1]))
    THEN Birthday(LineBirthdayToken(lines[1]))
    ELSE ExpectedBirthday(Tail(lines), name)

\* C17: when a line of the file holds an invalid phone or birthday token,
\* only that token is skipped: the load goes on, every line has its Record,
\* and the Record holds the valid phones, in file order, and the valid
\* birthday of its lines.
C17_BulkLoad ==
    (/\ pc # "start"
     /\ \E i \in 1..Len(file.lines) : HasInvalidToken(file.lines[i]))
    => /\ pc = "loop"
       /\ \A j \in 1..Len(file.lines) :
             LET name == LineName(file.lines[j])
                 found == find(book, name)
             IN  /\ ~IsNone(found)
                 /\ Val(found).phones = ExpectedPhones(file.lines, name)
                 /\ Val(found).birthday = ExpectedBirthday(file.lines, name)

\* C18: every entry of the phone list of a Record is a string of exactly
\* 10 digits, and a failed addPhone leaves the list as it is.
C18_PhonesAreTenDigits ==
    /\ \A i \in 1..Len(rec.phones) : IsTenDigits(rec.phones[i])
    /\ (last.op = "add_phone" /\ last.ret = 0)
          => rec.phones = last.pre.phones

====
